---- MODULE Spec2Model ----
(***************************************************************************)
(* Model of the SteamCMD / Killing Floor 2 server tooling.                 *)
(*                                                                         *)
(*   - src/presets/tptiap_kf2.py : start_kf2_server, start_kf2_server_loop *)
(*     (the supervisor of the update agent "steam" and the server "kf2").  *)
(*   - src/apps/kf2.py : the class KF2 (section tables of the .ini files,  *)
(*     the workshop subscription list, the workshop cache).                *)
(*                                                                         *)
(* Specifications:                                                         *)
(*   Spec      the supervisor, with processes that may exit at any time,   *)
(*             steps that may raise, and a wall clock that advances.       *)
(*   FairSpec  the supervisor under the assumptions of the daily restart:  *)
(*             no process exits on its own, no step raises, the clock      *)
(*             advances and every hour is polled.                          *)
(***************************************************************************)
EXTENDS Integers, Sequences, FiniteSets, TLC

\* time.localtime().tm_hour ranges over 0 .. HoursPerDay - 1.
HoursPerDay == 24

VARIABLES
    pc,               \* position of the supervisor in start_kf2_server(_loop)
    steam,            \* the Popen handle named steam: state of its process
    kf2,              \* the Popen handle named kf2: state of its process
    hour,             \* the local wall-clock hour
    restart_hour,     \* argument of start_kf2_server_loop
    is_restart_hour,  \* the flag of the monitor loop
    steps,            \* history: the calls made so far in the current cycle
    sawOtherHour,     \* history: a poll of this RUNNING period read an hour
                      \*          different from restart_hour
    polledThisHour,   \* history: the monitor loop has read the clock since
                      \*          the hour last changed
    ini_pc,           \* round trip: which of read / write have been applied
    ini_input,        \* round trip: the table or the file it started from
    ini_file,         \* round trip: the content of the .ini file
    section_table,    \* round trip: the table in memory
    engine_ini,       \* the content of PCServer-KFEngine.ini
    engine_before,    \* history: that content before the last call
    last_call,        \* history: the last call on the subscription list
    before_set,       \* history: <<A>> when engine_before is the file that
                      \*          set_workshop_items(A) wrote, << >> if not
    cache_pc,         \* position in clear_unregistered_workshop_maps
    cache_exists,     \* whether the directory KFGame\Cache exists
    cache,            \* the names of the entries of KFGame\Cache
    stuck,            \* the entries on which shutil.rmtree fails
    map_ids,          \* the local map_ids
    todo,             \* the entries os.listdir gave, not yet visited
    removed,          \* history: the entries removed so far
    cache_start,      \* history: the entries before the call
    game_ini,         \* the content of PCServer-KFGame.ini
    game_before,      \* history: that content before the last call
    game_call,        \* history: the last call on PCServer-KFGame.ini
    game_repeat,      \* history: the call before it was the same call, and
                      \*          wrote the file
    game_written,     \* history: game_before was written by this program
    game_runs,        \* history: the number of calls made so far
    sync_pc,          \* repeated cycles: the next file step of the cycle
    sync_ids,         \* repeated cycles: the fetched list of IDs
    sync_names,       \* repeated cycles: what get_custom_map_names gives
    sync_cycles,      \* history: the number of cycles completed
    sync_first        \* history: the two files after the first cycle

supVars == <<pc, steam, kf2, hour, restart_hour, is_restart_hour,
             steps, sawOtherHour, polledThisHour>>

iniVars == <<ini_pc, ini_input, ini_file, section_table>>

subVars == <<engine_ini, engine_before, last_call, before_set>>

cacheVars == <<cache_pc, cache_exists, cache, stuck, map_ids, todo, removed,
               cache_start>>

gameVars == <<game_ini, game_before, game_call, game_repeat, game_written,
              game_runs>>

syncVars == <<sync_pc, sync_ids, sync_names, sync_cycles, sync_first>>

vars == <<supVars, iniVars, subVars, cacheVars, gameVars, syncVars>>

\* what the supervisor leaves alone
nonSupVars == <<iniVars, subVars, cacheVars, gameVars, syncVars>>

\* what the round trips leave alone
nonIniVars == <<supVars, subVars, cacheVars, gameVars, syncVars>>

\* what the calls on the subscription list leave alone
nonSubVars == <<supVars, iniVars, cacheVars, gameVars, syncVars>>

\* what clear_unregistered_workshop_maps leaves alone
nonCacheVars == <<supVars, iniVars, subVars, gameVars, syncVars>>

\* what the calls on PCServer-KFGame.ini leave alone
nonGameVars == <<supVars, iniVars, subVars, cacheVars, syncVars>>

\* what the file steps of repeated cycles leave alone, the two files apart
nonSyncVars == <<supVars, iniVars, cacheVars,
                 engine_before, last_call, before_set,
                 game_before, game_call, game_repeat, game_written, game_runs>>

(***************************************************************************)
(* Text.  The content of a file is a sequence of characters.  NL is the    *)
(* newline; a fixed piece of text that the code only ever handles whole    *)
(* (a section key, the subscription key, a word without "=" and without    *)
(* digits) is written as one element.  A line is a sequence of characters  *)
(* other than NL; the empty line is << >>.                                 *)
(***************************************************************************)
NL == "\n"

\* KF2._workshop_section_key, as one piece of text and as a header line
WorkshopKey == "[OnlineSubsystemSteamworks.KFWorkshopSteamworks]"

WorkshopHeader == <<WorkshopKey>>

\* the key of a subscription line, 'ServerSubscribedWorkshopItems'
ItemKey == "ServerSubscribedWorkshopItems"

DigitChars == <<"0", "1", "2", "3", "4", "5", "6", "7", "8", "9">>

IsDigit(c) == \E d \in 1..10 : DigitChars[d] = c

DigitValue(c) == (CHOOSE d \in 1..10 : DigitChars[d] = c) - 1

\* '%s' % item for an integer item >= 0: its decimal digits
RECURSIVE DecStr(_)
DecStr(n) ==
    IF n < 10 THEN <<DigitChars[n + 1]>>
    ELSE Append(DecStr(n \div 10), DigitChars[(n % 10) + 1])

\* int(s) succeeds on a non-empty run of digits (the texts of this model
\* hold no sign, blank or underscore); it raises ValueError otherwise
IsIntText(s) == Len(s) > 0 /\ \A i \in 1..Len(s) : IsDigit(s[i])

RECURSIVE IntOf(_)
IntOf(s) ==
    IF Len(s) = 0 THEN 0
    ELSE 10 * IntOf(SubSeq(s, 1, Len(s) - 1)) + DigitValue(s[Len(s)])

\* the first index j >= i of c that holds no NL (Len(c) + 1 if none)
RECURSIVE RunEnd(_, _)
RunEnd(c, i) ==
    IF i > Len(c) \/ c[i] # NL THEN i ELSE RunEnd(c, i + 1)

\* re.split(r'\n\n+', content): the pieces between the runs of two or more
\* newlines; a run at either end of the content leaves an empty piece there
RECURSIVE SplitBlankFrom(_, _, _, _)
SplitBlankFrom(c, i, cur, acc) ==
    IF i > Len(c) THEN Append(acc, cur)
    ELSE IF c[i] = NL /\ i < Len(c) /\ c[i + 1] = NL
         THEN SplitBlankFrom(c, RunEnd(c, i), << >>, Append(acc, cur))
         ELSE SplitBlankFrom(c, i + 1, Append(cur, c[i]), acc)

SplitBlank(c) == SplitBlankFrom(c, 1, << >>, << >>)

\* s.split(sep) for a one-character sep
RECURSIVE SplitOnFrom(_, _, _, _, _)
SplitOnFrom(s, sep, i, cur, acc) ==
    IF i > Len(s) THEN Append(acc, cur)
    ELSE IF s[i] = sep
         THEN SplitOnFrom(s, sep, i + 1, << >>, Append(acc, cur))
         ELSE SplitOnFrom(s, sep, i + 1, Append(cur, s[i]), acc)

SplitOn(s, sep) == SplitOnFrom(s, sep, 1, << >>, << >>)

\* sep.join(parts)
RECURSIVE Join(_, _)
Join(parts, sep) ==
    IF Len(parts) = 0 THEN << >>
    ELSE IF Len(parts) = 1 THEN parts[1]
    ELSE parts[1] \o <<sep>> \o Join(Tail(parts), sep)

(***************************************************************************)
(* Section tables.  The dict of read_ini_file_to_table is a sequence of    *)
(* entries [h |-> header line, body |-> list of lines] with distinct       *)
(* headers, in insertion order.                                            *)
(***************************************************************************)
HasKey(t, h) == \E i \in 1..Len(t) : t[i].h = h

KeyIndex(t, h) == CHOOSE i \in 1..Len(t) : t[i].h = h

\* table[h]
TableGet(t, h) == t[KeyIndex(t, h)].body

\* table[h] = body: a new key goes last, an old key keeps its place
TableSet(t, h, body) ==
    IF HasKey(t, h)
    THEN [t EXCEPT ![KeyIndex(t, h)] = [h |-> h, body |-> body]]
    ELSE Append(t, [h |-> h, body |-> body])

\* del table[h]
TableDel(t, h) ==
    LET k == KeyIndex(t, h)
    IN  SubSeq(t, 1, k - 1) \o SubSeq(t, k + 1, Len(t))

\* KF2.read_ini_file_to_table, lines 257-262
RECURSIVE ReadSections(_, _)
ReadSections(pieces, t) ==
    IF Len(pieces) = 0 THEN t
    ELSE LET ls == SplitOn(pieces[1], NL)
         IN  ReadSections(Tail(pieces), TableSet(t, ls[1], Tail(ls)))

ReadTable(content) == ReadSections(SplitBlank(content), << >>)

\* line 283: the lines [k] + v + [''] of every entry, in table order
RECURSIVE TableLines(_)
TableLines(t) ==
    IF Len(t) = 0 THEN << >>
    ELSE <<t[1].h>> \o t[1].body \o << << >> >> \o TableLines(Tail(t))

\* variant: the lines [k] + v of every entry, no empty line after a section
RECURSIVE TableLinesNoBlank(_)
TableLinesNoBlank(t) ==
    IF Len(t) = 0 THEN << >>
    ELSE <<t[1].h>> \o t[1].body \o TableLinesNoBlank(Tail(t))

WriteTableNoBlank(t) == Join(TableLinesNoBlank(t), NL)

\* KF2.write_table_to_ini_file, lines 280-284: the content written
WriteTable(t) == Join(TableLines(t), NL)

(***************************************************************************)
(* Processes.  A handle is "none" before the first launch; its process is  *)
(* "alive", then "terminating" once terminate() was called on it, then     *)
(* "exited" (gone, return code not collected yet), then "reaped" once      *)
(* poll() or wait() has collected the return code.                         *)
(***************************************************************************)
ProcStates == {"none", "alive", "terminating", "exited", "reaped"}

\* Popen.terminate(): asks a live process to end; nothing to do otherwise.
Terminate(p) == IF p = "alive" THEN "terminating" ELSE p

\* Popen.poll() is not None
PollNotNone(p) == p \in {"exited", "reaped"}

\* state of the handle after Popen.poll() / a returned Popen.wait()
Reap(p) == IF p = "exited" THEN "reaped" ELSE p

Hours == 0 .. (HoursPerDay - 1)

\* the calls of one cycle of start_kf2_server, in program order
CycleSteps ==
    << "set_workshop_items", "clear_unregistered_workshop_maps",
       "Steam.launch", "KF2.launch", "sleep",
       "steam.terminate", "kf2.terminate", "steam.wait", "kf2.wait",
       "rebuild_map_summaries", "rebuild_custom_mapcycle",
       "Steam.launch", "KF2.launch" >>

SupInit ==
    /\ pc = "set_items"
    /\ steam = "none"
    /\ kf2 = "none"
    /\ hour \in Hours
    /\ restart_hour \in Hours
    /\ is_restart_hour = FALSE
    /\ steps = << >>
    /\ sawOtherHour = FALSE
    /\ polledThisHour = FALSE

\* the variables of the round trip, while it is not being exercised
IniIdle ==
    /\ ini_pc = "idle"
    /\ ini_input = << >>
    /\ ini_file = << >>
    /\ section_table = << >>

NoCall == [op |-> "none", items |-> << >>, append |-> FALSE, raised |-> ""]

\* the variables of the subscription list, while it is not being exercised
SubIdle ==
    /\ engine_ini = << >>
    /\ engine_before = << >>
    /\ last_call = NoCall
    /\ before_set = << >>

\* the variables of the cache, while it is not being exercised
CacheIdle ==
    /\ cache_pc = "idle"
    /\ cache_exists = FALSE
    /\ cache = {}
    /\ stuck = {}
    /\ map_ids = {}
    /\ todo = {}
    /\ removed = {}
    /\ cache_start = {}

\* no call on PCServer-KFGame.ini was made
NoGameCall == [op |-> "none", names |-> << >>, index |-> 0, raised |-> ""]

\* the variables of PCServer-KFGame.ini, while it is not being exercised
GameIdle ==
    /\ game_ini = << >>
    /\ game_before = << >>
    /\ game_call = NoGameCall
    /\ game_repeat = FALSE
    /\ game_written = FALSE
    /\ game_runs = 0

\* the variables of the repeated cycles, while they are not being exercised
SyncIdle ==
    /\ sync_pc = "idle"
    /\ sync_ids = << >>
    /\ sync_names = << >>
    /\ sync_cycles = 0
    /\ sync_first = << >>

Init == SupInit /\ IniIdle /\ SubIdle /\ CacheIdle /\ GameIdle /\ SyncIdle

(***************************************************************************)
(* start_kf2_server                                                        *)
(***************************************************************************)
\* line 84: KF2.set_workshop_items([...]) with the fetched IDs, append=False
SetItems ==
    /\ pc = "set_items"
    /\ pc' = "clear_cache"
    /\ steps' = <<"set_workshop_items">>
    /\ UNCHANGED <<steam, kf2, hour, restart_hour, is_restart_hour,
                   sawOtherHour, polledThisHour>>
    /\ UNCHANGED nonSupVars

\* line 92: KF2.clear_unregistered_workshop_maps()
ClearCache ==
    /\ pc = "clear_cache"
    /\ pc' = "launch_steam_1"
    /\ steps' = Append(steps, "clear_unregistered_workshop_maps")
    /\ UNCHANGED <<steam, kf2, hour, restart_hour, is_restart_hour,
                   sawOtherHour, polledThisHour>>
    /\ UNCHANGED nonSupVars

\* line 97: steam = Steam.launch()
LaunchSteamPrewarm ==
    /\ pc = "launch_steam_1"
    /\ pc' = "launch_kf2_1"
    /\ steam' = "alive"
    /\ steps' = Append(steps, "Steam.launch")
    /\ UNCHANGED <<kf2, hour, restart_hour, is_restart_hour,
                   sawOtherHour, polledThisHour>>
    /\ UNCHANGED nonSupVars

\* line 98: kf2 = KF2.launch()
LaunchKf2Prewarm ==
    /\ pc = "launch_kf2_1"
    /\ pc' = "warmup"
    /\ kf2' = "alive"
    /\ steps' = Append(steps, "KF2.launch")
    /\ UNCHANGED <<steam, hour, restart_hour, is_restart_hour,
                   sawOtherHour, polledThisHour>>
    /\ UNCHANGED nonSupVars

\* line 99: time.sleep(60.0 * 5)
Warmup ==
    /\ pc = "warmup"
    /\ pc' = "term_steam_1"
    /\ steps' = Append(steps, "sleep")
    /\ UNCHANGED <<steam, kf2, hour, restart_hour, is_restart_hour,
                   sawOtherHour, polledThisHour>>
    /\ UNCHANGED nonSupVars

\* line 100: steam.terminate()
TermSteamPrewarm ==
    /\ pc = "term_steam_1"
    /\ pc' = "term_kf2_1"
    /\ steam' = Terminate(steam)
    /\ steps' = Append(steps, "steam.terminate")
    /\ UNCHANGED <<kf2, hour, restart_hour, is_restart_hour,
                   sawOtherHour, polledThisHour>>
    /\ UNCHANGED nonSupVars

\* line 101: kf2.terminate()
TermKf2Prewarm ==
    /\ pc = "term_kf2_1"
    /\ pc' = "wait_steam_1"
    /\ kf2' = Terminate(kf2)
    /\ steps' = Append(steps, "kf2.terminate")
    /\ UNCHANGED <<steam, hour, restart_hour, is_restart_hour,
                   sawOtherHour, polledThisHour>>
    /\ UNCHANGED nonSupVars

\* line 102: steam.wait() returns once the process is gone
WaitSteamPrewarm ==
    /\ pc = "wait_steam_1"
    /\ PollNotNone(steam)
    /\ pc' = "wait_kf2_1"
    /\ steam' = Reap(steam)
    /\ steps' = Append(steps, "steam.wait")
    /\ UNCHANGED <<kf2, hour, restart_hour, is_restart_hour,
                   sawOtherHour, polledThisHour>>
    /\ UNCHANGED nonSupVars

\* variant: the relaunch follows the warm-up at once, without the rebuilds
WaitKf2PrewarmNoRebuild ==
    /\ pc = "wait_kf2_1"
    /\ PollNotNone(kf2)
    /\ pc' = "launch_steam_2"
    /\ kf2' = Reap(kf2)
    /\ steps' = Append(steps, "kf2.wait")
    /\ UNCHANGED <<steam, hour, restart_hour, is_restart_hour,
                   sawOtherHour, polledThisHour>>
    /\ UNCHANGED nonSupVars

\* variant: the rebuilds follow kf2.terminate() without waiting for the
\* server's exit
WaitKf2PrewarmNoWait ==
    /\ pc = "wait_kf2_1"
    /\ pc' = "summaries"
    /\ steps' = Append(steps, "kf2.wait")
    /\ UNCHANGED <<steam, kf2, hour, restart_hour, is_restart_hour,
                   sawOtherHour, polledThisHour>>
    /\ UNCHANGED nonSupVars

\* line 103: kf2.wait()
WaitKf2Prewarm ==
    /\ pc = "wait_kf2_1"
    /\ PollNotNone(kf2)
    /\ pc' = "summaries"
    /\ kf2' = Reap(kf2)
    /\ steps' = Append(steps, "kf2.wait")
    /\ UNCHANGED <<steam, hour, restart_hour, is_restart_hour,
                   sawOtherHour, polledThisHour>>
    /\ UNCHANGED nonSupVars

\* line 106: KF2.rebuild_map_summaries()
Summaries ==
    /\ pc = "summaries"
    /\ pc' = "mapcycle"
    /\ steps' = Append(steps, "rebuild_map_summaries")
    /\ UNCHANGED <<steam, kf2, hour, restart_hour, is_restart_hour,
                   sawOtherHour, polledThisHour>>
    /\ UNCHANGED nonSupVars

\* line 107: KF2.rebuild_custom_mapcycle()
Mapcycle ==
    /\ pc = "mapcycle"
    /\ pc' = "launch_steam_2"
    /\ steps' = Append(steps, "rebuild_custom_mapcycle")
    /\ UNCHANGED <<steam, kf2, hour, restart_hour, is_restart_hour,
                   sawOtherHour, polledThisHour>>
    /\ UNCHANGED nonSupVars

\* line 110: return Steam.launch(), ...
LaunchSteam ==
    /\ pc = "launch_steam_2"
    /\ pc' = "launch_kf2_2"
    /\ steam' = "alive"
    /\ steps' = Append(steps, "Steam.launch")
    /\ UNCHANGED <<kf2, hour, restart_hour, is_restart_hour,
                   sawOtherHour, polledThisHour>>
    /\ UNCHANGED nonSupVars

\* line 110: ... , KF2.launch(); line 135 binds the pair to steam, kf2
LaunchKf2 ==
    /\ pc = "launch_kf2_2"
    /\ pc' = "init_flag"
    /\ kf2' = "alive"
    /\ steps' = Append(steps, "KF2.launch")
    /\ UNCHANGED <<steam, hour, restart_hour, is_restart_hour,
                   sawOtherHour, polledThisHour>>
    /\ UNCHANGED nonSupVars

\* the positions whose call can raise: the sheet fetch and the file
\* operations (lines 77-92, 106-107) and Popen (lines 97, 98, 110)
RaisingPcs ==
    {"set_items", "clear_cache", "launch_steam_1", "launch_kf2_1",
     "summaries", "mapcycle", "launch_steam_2", "launch_kf2_2"}

\* an exception leaves start_kf2_server and start_kf2_server_loop: neither
\* has a try block
StepRaises ==
    /\ pc \in RaisingPcs
    /\ pc' = "crashed"
    /\ UNCHANGED <<steam, kf2, hour, restart_hour, is_restart_hour,
                   steps, sawOtherHour, polledThisHour>>
    /\ UNCHANGED nonSupVars

(***************************************************************************)
(* start_kf2_server_loop                                                   *)
(***************************************************************************)
\* line 143: is_restart_hour = False
InitFlag ==
    /\ pc = "init_flag"
    /\ pc' = "poll_kf2"
    /\ is_restart_hour' = FALSE
    /\ sawOtherHour' = FALSE
    /\ UNCHANGED <<steam, kf2, hour, restart_hour, steps, polledThisHour>>
    /\ UNCHANGED nonSupVars

\* line 149: if kf2.poll() is not None
PollKf2 ==
    /\ pc = "poll_kf2"
    /\ pc' = IF PollNotNone(kf2) THEN "exit_term_steam" ELSE "poll_steam"
    /\ kf2' = Reap(kf2)
    /\ UNCHANGED <<steam, hour, restart_hour, is_restart_hour,
                   steps, sawOtherHour, polledThisHour>>
    /\ UNCHANGED nonSupVars

\* line 150: steam.terminate()
ExitTermSteam ==
    /\ pc = "exit_term_steam"
    /\ pc' = "exit_wait_steam"
    /\ steam' = Terminate(steam)
    /\ UNCHANGED <<kf2, hour, restart_hour, is_restart_hour,
                   steps, sawOtherHour, polledThisHour>>
    /\ UNCHANGED nonSupVars

\* variant: break instead of return, so the outer loop starts a new cycle
ExitWaitSteamBreaks ==
    /\ pc = "exit_wait_steam"
    /\ PollNotNone(steam)
    /\ pc' = "restart_term_steam"
    /\ steam' = Reap(steam)
    /\ UNCHANGED <<kf2, hour, restart_hour, is_restart_hour,
                   steps, sawOtherHour, polledThisHour>>
    /\ UNCHANGED nonSupVars

\* lines 151-152: steam.wait(); return
ExitWaitSteam ==
    /\ pc = "exit_wait_steam"
    /\ PollNotNone(steam)
    /\ pc' = "stopped"
    /\ steam' = Reap(steam)
    /\ UNCHANGED <<kf2, hour, restart_hour, is_restart_hour,
                   steps, sawOtherHour, polledThisHour>>
    /\ UNCHANGED nonSupVars

\* line 153: if steam.poll() is not None
PollSteam ==
    /\ pc = "poll_steam"
    /\ pc' = IF PollNotNone(steam) THEN "exit_term_kf2" ELSE "check_hour"
    /\ steam' = Reap(steam)
    /\ UNCHANGED <<kf2, hour, restart_hour, is_restart_hour,
                   steps, sawOtherHour, polledThisHour>>
    /\ UNCHANGED nonSupVars

\* line 154: kf2.terminate()
ExitTermKf2 ==
    /\ pc = "exit_term_kf2"
    /\ pc' = "exit_wait_kf2"
    /\ kf2' = Terminate(kf2)
    /\ UNCHANGED <<steam, hour, restart_hour, is_restart_hour,
                   steps, sawOtherHour, polledThisHour>>
    /\ UNCHANGED nonSupVars

\* lines 155-156: kf2.wait(); return
ExitWaitKf2 ==
    /\ pc = "exit_wait_kf2"
    /\ PollNotNone(kf2)
    /\ pc' = "stopped"
    /\ kf2' = Reap(kf2)
    /\ UNCHANGED <<steam, hour, restart_hour, is_restart_hour,
                   steps, sawOtherHour, polledThisHour>>
    /\ UNCHANGED nonSupVars

\* variant: the flag is set on every pass, whatever the hour
ArmFlagAlways(flag, h, rh) == TRUE

\* variant: the flag is never set
ArmFlagNever(flag, h, rh) == flag

\* the value of is_restart_hour after lines 162-163
ArmFlag(flag, h, rh) == IF h # rh THEN TRUE ELSE flag

\* lines 159-163: hour = time.localtime().tm_hour; break when the hour is
\* the restart hour and the flag is set; set the flag when it is not
CheckHour ==
    /\ pc = "check_hour"
    /\ IF hour = restart_hour /\ is_restart_hour
          THEN /\ pc' = "restart_term_steam"
               /\ UNCHANGED is_restart_hour
          ELSE /\ pc' = "sleep"
               /\ is_restart_hour' = ArmFlag(is_restart_hour, hour, restart_hour)
    /\ sawOtherHour' = (sawOtherHour \/ hour # restart_hour)
    /\ polledThisHour' = TRUE
    /\ UNCHANGED <<steam, kf2, hour, restart_hour, steps>>
    /\ UNCHANGED nonSupVars

\* line 166: time.sleep(1)
Sleep ==
    /\ pc = "sleep"
    /\ pc' = "poll_kf2"
    /\ UNCHANGED <<steam, kf2, hour, restart_hour, is_restart_hour,
                   steps, sawOtherHour, polledThisHour>>
    /\ UNCHANGED nonSupVars

\* line 169: steam.terminate()
RestartTermSteam ==
    /\ pc = "restart_term_steam"
    /\ pc' = "restart_term_kf2"
    /\ steam' = Terminate(steam)
    /\ UNCHANGED <<kf2, hour, restart_hour, is_restart_hour,
                   steps, sawOtherHour, polledThisHour>>
    /\ UNCHANGED nonSupVars

\* line 170: kf2.terminate()
RestartTermKf2 ==
    /\ pc = "restart_term_kf2"
    /\ pc' = "restart_wait_steam"
    /\ kf2' = Terminate(kf2)
    /\ UNCHANGED <<steam, hour, restart_hour, is_restart_hour,
                   steps, sawOtherHour, polledThisHour>>
    /\ UNCHANGED nonSupVars

\* line 171: steam.wait()
RestartWaitSteam ==
    /\ pc = "restart_wait_steam"
    /\ PollNotNone(steam)
    /\ pc' = "restart_wait_kf2"
    /\ steam' = Reap(steam)
    /\ UNCHANGED <<kf2, hour, restart_hour, is_restart_hour,
                   steps, sawOtherHour, polledThisHour>>
    /\ UNCHANGED nonSupVars

\* variant: the next cycle starts after kf2.terminate() without waiting
\* for the server's exit
RestartWaitKf2NoWait ==
    /\ pc = "restart_wait_kf2"
    /\ pc' = "set_items"
    /\ steps' = << >>
    /\ UNCHANGED <<steam, kf2, hour, restart_hour, is_restart_hour,
                   sawOtherHour, polledThisHour>>
    /\ UNCHANGED nonSupVars

\* line 172: kf2.wait(); then line 132: the outer loop starts the next cycle
RestartWaitKf2 ==
    /\ pc = "restart_wait_kf2"
    /\ PollNotNone(kf2)
    /\ pc' = "set_items"
    /\ kf2' = Reap(kf2)
    /\ steps' = << >>
    /\ UNCHANGED <<steam, hour, restart_hour, is_restart_hour,
                   sawOtherHour, polledThisHour>>
    /\ UNCHANGED nonSupVars

(***************************************************************************)
(* The environment: the two processes and the wall clock.                  *)
(***************************************************************************)
\* a process the supervisor asked to terminate ends
SteamKilled ==
    /\ steam = "terminating"
    /\ steam' = "exited"
    /\ UNCHANGED <<pc, kf2, hour, restart_hour, is_restart_hour,
                   steps, sawOtherHour, polledThisHour>>
    /\ UNCHANGED nonSupVars

Kf2Killed ==
    /\ kf2 = "terminating"
    /\ kf2' = "exited"
    /\ UNCHANGED <<pc, steam, hour, restart_hour, is_restart_hour,
                   steps, sawOtherHour, polledThisHour>>
    /\ UNCHANGED nonSupVars

\* a process ends on its own
SteamExits ==
    /\ steam = "alive"
    /\ steam' = "exited"
    /\ UNCHANGED <<pc, kf2, hour, restart_hour, is_restart_hour,
                   steps, sawOtherHour, polledThisHour>>
    /\ UNCHANGED nonSupVars

Kf2Exits ==
    /\ kf2 = "alive"
    /\ kf2' = "exited"
    /\ UNCHANGED <<pc, steam, hour, restart_hour, is_restart_hour,
                   steps, sawOtherHour, polledThisHour>>
    /\ UNCHANGED nonSupVars

\* the local hour advances
Tick ==
    /\ hour' = (hour + 1) % HoursPerDay
    /\ polledThisHour' = FALSE
    /\ UNCHANGED <<pc, steam, kf2, restart_hour, is_restart_hour,
                   steps, sawOtherHour>>
    /\ UNCHANGED nonSupVars

\* the positions of the RUNNING monitor loop
MonitorPcs == {"poll_kf2", "poll_steam", "check_hour", "sleep"}

\* the clock advancing while the monitor loop polls at least once an hour
TickPolled ==
    /\ pc \in MonitorPcs => polledThisHour
    /\ Tick

StartServer ==
    \/ SetItems \/ ClearCache
    \/ LaunchSteamPrewarm \/ LaunchKf2Prewarm \/ Warmup
    \/ TermSteamPrewarm \/ TermKf2Prewarm
    \/ WaitSteamPrewarm \/ WaitKf2Prewarm
    \/ Summaries \/ Mapcycle
    \/ LaunchSteam \/ LaunchKf2

MonitorLoop ==
    \/ InitFlag \/ PollKf2 \/ PollSteam \/ CheckHour \/ Sleep
    \/ RestartTermSteam \/ RestartTermKf2
    \/ RestartWaitSteam \/ RestartWaitKf2

\* lines 150-152 and 154-156: the way out after a process went away
ExitPath ==
    \/ ExitTermSteam \/ ExitWaitSteam \/ ExitTermKf2 \/ ExitWaitKf2

Supervisor == StartServer \/ MonitorLoop \/ ExitPath

\* the supervisor while no process goes away on its own
SupervisorAlive == StartServer \/ MonitorLoop

Next ==
    \/ Supervisor
    \/ StepRaises
    \/ SteamKilled \/ Kf2Killed
    \/ SteamExits \/ Kf2Exits
    \/ Tick

Spec == Init /\ [][Next]_vars

NextFair ==
    \/ SupervisorAlive
    \/ SteamKilled \/ Kf2Killed
    \/ TickPolled

\* The supervisor is one thread that always takes its next step; a process
\* asked to terminate ends; the clock advances.  No process goes away on its
\* own and no step raises.
FairSpec ==
    /\ Init
    /\ [][NextFair]_vars
    /\ WF_vars(SupervisorAlive)
    /\ WF_vars(SteamKilled)
    /\ WF_vars(Kf2Killed)
    /\ WF_vars(TickPolled)

(***************************************************************************)
(* IniSpec: the round trips of read_ini_file_to_table and                  *)
(* write_table_to_ini_file, from every small table and every small file.   *)
(***************************************************************************)
\* bound: the number of lines (headers and body lines) of an input table
MaxTableLines == 4

\* bound: the number of characters of an input file
MaxFileLen == 6

SeqsUpTo(S, n) == UNION {[1..k -> S] : k \in 0..n}

\* the lines of the input tables
IniLines == { <<"[A]">>, <<"[B]">>, <<"x", "=", "1">> }

\* the characters of the input files
IniChars == {"[A]", "[B]", NL}

\* the table of a list of marked lines <<line, starts a section>>
RECURSIVE TableOfMarked(_, _)
TableOfMarked(m, t) ==
    IF Len(m) = 0 THEN t
    ELSE IF m[1][2]
         THEN TableOfMarked(Tail(m), Append(t, [h |-> m[1][1], body |-> << >>]))
         ELSE TableOfMarked(Tail(m),
                 [t EXCEPT ![Len(t)].body = Append(@, m[1][1])])

DistinctHeaders(t) ==
    \A i, j \in 1..Len(t) : t[i].h = t[j].h => i = j

\* the well-formed tables: distinct non-empty headers, no blank body line
InputTables ==
    { t \in { TableOfMarked(m, << >>) :
                m \in { x \in SeqsUpTo(IniLines \X BOOLEAN, MaxTableLines) :
                           Len(x) > 0 => x[1][2] } } :
        DistinctHeaders(t) }

InputFiles == SeqsUpTo(IniChars, MaxFileLen)

RoundTripInit ==
    \/ /\ ini_pc = "table"
       /\ section_table \in InputTables
       /\ ini_file = << >>
       /\ ini_input = section_table
    \/ /\ ini_pc = "file"
       /\ ini_file \in InputFiles
       /\ section_table = << >>
       /\ ini_input = ini_file

\* other steps of the supervisor's variables, while it is not exercised
SupIdle ==
    /\ pc = "idle"
    /\ steam = "none"
    /\ kf2 = "none"
    /\ hour = 0
    /\ restart_hour = 0
    /\ is_restart_hour = FALSE
    /\ steps = << >>
    /\ sawOtherHour = FALSE
    /\ polledThisHour = FALSE

IniInit == SupIdle /\ RoundTripInit /\ SubIdle /\ CacheIdle /\ GameIdle /\ SyncIdle

\* write_table_to_ini_file(path, table), lines 280-288
WriteTableToIniFile ==
    /\ ini_pc \in {"table", "file_read"}
    /\ ini_file' = WriteTable(section_table)
    /\ ini_pc' = IF ini_pc = "table" THEN "table_written" ELSE "file_read_written"
    /\ UNCHANGED <<ini_input, section_table>>
    /\ UNCHANGED nonIniVars

\* section_table = read_ini_file_to_table(path), lines 252-262
ReadIniFileToTable ==
    /\ ini_pc \in {"file", "table_written"}
    /\ section_table' = ReadTable(ini_file)
    /\ ini_pc' = IF ini_pc = "file" THEN "file_read" ELSE "table_written_read"
    /\ UNCHANGED <<ini_input, ini_file>>
    /\ UNCHANGED nonIniVars

IniNext ==
    \/ WriteTableToIniFile
    \/ ReadIniFileToTable

IniSpec == IniInit /\ [][IniNext]_vars

(***************************************************************************)
(* SubSpec: set_workshop_items and remove_workshop_items, called in any    *)
(* order on PCServer-KFEngine.ini.                                         *)
(***************************************************************************)
\* bound: the number of body lines of the subscription section at the start
MaxStoredLines == 2

\* bound: the length of the list of IDs given to a call
MaxItems == 2

\* the IDs given to the calls
Ids == {1, 9, 16}

Range(q) == {q[i] : i \in 1..Len(q)}

\* 'ServerSubscribedWorkshopItems=%s' % item, lines 162 and 196
ItemLine(item) == <<ItemKey, "=">> \o DecStr(item)

\* the body lines a subscription section may hold at the start: two
\* subscriptions, a line without "=", a line without a number
StartLines == { ItemLine(1), ItemLine(16), <<"x">>, <<ItemKey, "=", "x">> }

\* another section of the file
OtherBlock == <<"[Core.System]", NL, "Port", "=", "7">>

WorkshopBlock(body) ==
    IF Len(body) = 0 THEN <<WorkshopKey>>
    ELSE <<WorkshopKey, NL>> \o Join(body, NL)

\* the files at the start: the subscription section missing, alone, first
\* or last, the file ending with or without a newline
EngineFiles ==
    { layout \o ending :
        ending \in { << >>, <<NL>> },
        layout \in
            {OtherBlock}
            \cup UNION { { WorkshopBlock(b),
                           WorkshopBlock(b) \o <<NL, NL>> \o OtherBlock,
                           OtherBlock \o <<NL, NL>> \o WorkshopBlock(b) } :
                         b \in SeqsUpTo(StartLines, MaxStoredLines) } }

SubInit ==
    /\ engine_ini \in EngineFiles
    /\ engine_before = engine_ini
    /\ last_call = NoCall
    /\ before_set = << >>

\* section_table.setdefault(cls._workshop_section_key, []), lines 151, 185
SetDefaultWorkshop(t) ==
    IF HasKey(t, WorkshopHeader) THEN t ELSE Append(t, [h |-> WorkshopHeader, body |-> << >>])

\* int(line.split('=')[1]) raises IndexError on a line without "=" and
\* ValueError when the text after the first "=" is no number
SecondPart(line) == SplitOn(line, "=")[2]

\* the exception of the comprehension of lines 149-153 ("" when none):
\* lines without "=" are filtered out
SetParseError(lines) ==
    IF \E i \in 1..Len(lines) :
          "=" \in Range(lines[i]) /\ ~IsIntText(SecondPart(lines[i]))
    THEN "ValueError" ELSE ""

\* the exception of the comprehension of lines 183-186: no filter; the
\* first offending line decides
RemoveParseError(lines) ==
    LET bad == { i \in 1..Len(lines) :
                    \/ "=" \notin Range(lines[i])
                    \/ ~IsIntText(SecondPart(lines[i])) }
    IN  IF bad = {} THEN ""
        ELSE LET k == CHOOSE i \in bad : \A j \in bad : i <= j
             IN  IF "=" \notin Range(lines[k]) THEN "IndexError" ELSE "ValueError"

\* existing_items, lines 149-153
RECURSIVE ExistingItemsFiltered(_)
ExistingItemsFiltered(lines) ==
    IF Len(lines) = 0 THEN << >>
    ELSE IF "=" \in Range(lines[1])
         THEN <<IntOf(SecondPart(lines[1]))>> \o ExistingItemsFiltered(Tail(lines))
         ELSE ExistingItemsFiltered(Tail(lines))

\* existing_items, lines 183-186
ExistingItems(lines) == [i \in 1..Len(lines) |-> IntOf(SecondPart(lines[i]))]

(***************************************************************************)
(* A Python set of small non-negative integers, as CPython builds it: a    *)
(* table of 8 slots (no resize up to 4 elements), hash(n) = n, first slot  *)
(* n mod 8, next slot (5 i + 1 + perturb) mod 8 with perturb = n >> 5,     *)
(* >> 5 again at every probe; iteration goes through the slots in order.   *)
(* slots[i] = -1 is an empty slot.                                         *)
(***************************************************************************)
RECURSIVE SetProbe(_, _, _, _)
SetProbe(slots, key, i, perturb) ==
    IF slots[i] = -1 THEN [slots EXCEPT ![i] = key]
    ELSE IF slots[i] = key THEN slots
    ELSE SetProbe(slots, key, (i * 5 + 1 + (perturb \div 32)) % 8, perturb \div 32)

SetAdd(slots, key) == SetProbe(slots, key, key % 8, key)

RECURSIVE SetOfList(_, _)
SetOfList(q, slots) ==
    IF Len(q) = 0 THEN slots ELSE SetOfList(Tail(q), SetAdd(slots, q[1]))

RECURSIVE SlotsFrom(_, _)
SlotsFrom(slots, i) ==
    IF i > 7 THEN << >>
    ELSE IF slots[i] = -1 THEN SlotsFrom(slots, i + 1)
    ELSE <<slots[i]>> \o SlotsFrom(slots, i + 1)

\* list(set(q)): the elements of set(q) in iteration order
PySetOrder(q) == SlotsFrom(SetOfList(q, [i \in 0..7 |-> -1]), 0)

\* variant: append=True taken for append=False and conversely
AllItemsSwapped(items, existing, append) ==
    IF append THEN PySetOrder(items) ELSE PySetOrder(items \o existing)

\* line 157: all_items, in the order the comprehension of line 163 runs
AllItems(items, existing, append) ==
    IF append THEN PySetOrder(items \o existing) ELSE PySetOrder(items)

ItemLines(q) == [i \in 1..Len(q) |-> ItemLine(q[i])]

\* the items of existing_items that are not in the given ones, line 196-198
RECURSIVE KeepNotIn(_, _)
KeepNotIn(existing, given) ==
    IF Len(existing) = 0 THEN << >>
    ELSE IF existing[1] \in given THEN KeepNotIn(Tail(existing), given)
    ELSE <<existing[1]>> \o KeepNotIn(Tail(existing), given)

\* KF2.set_workshop_items(items, append), lines 146-167
SetWorkshopItems(items, append) ==
    LET t     == SetDefaultWorkshop(ReadTable(engine_ini))
        lines == TableGet(t, WorkshopHeader)
        e     == SetParseError(lines)
        body  == ItemLines(AllItems(items, ExistingItemsFiltered(lines), append))
    IN  /\ last_call = NoCall
        /\ engine_before' = engine_ini
        /\ last_call' = [op |-> "set_workshop_items", items |-> items,
                         append |-> append, raised |-> e]
        /\ engine_ini' = IF e = "" THEN WriteTable(TableSet(t, WorkshopHeader, body))
                         ELSE engine_ini
        /\ UNCHANGED before_set
        /\ UNCHANGED nonSubVars

\* KF2.remove_workshop_items(items) with a list of IDs, lines 180-202
RemoveWorkshopItems(items) ==
    LET t     == SetDefaultWorkshop(ReadTable(engine_ini))
        lines == TableGet(t, WorkshopHeader)
        e     == RemoveParseError(lines)
        body  == ItemLines(KeepNotIn(ExistingItems(lines), Range(items)))
    IN  /\ last_call = NoCall
        /\ engine_before' = engine_ini
        /\ last_call' = [op |-> "remove_workshop_items", items |-> items,
                         append |-> FALSE, raised |-> e]
        /\ engine_ini' = IF e = "" THEN WriteTable(TableSet(t, WorkshopHeader, body))
                         ELSE engine_ini
        /\ UNCHANGED before_set
        /\ UNCHANGED nonSubVars

\* KF2.remove_workshop_items() with items=None, lines 180-193, 202
RemoveAllWorkshopItems ==
    LET t     == SetDefaultWorkshop(ReadTable(engine_ini))
        lines == TableGet(t, WorkshopHeader)
        e     == RemoveParseError(lines)
    IN  /\ last_call = NoCall
        /\ engine_before' = engine_ini
        /\ last_call' = [op |-> "remove_workshop_items(None)", items |-> << >>,
                         append |-> FALSE, raised |-> e]
        /\ engine_ini' = IF e = "" THEN WriteTable(TableDel(t, WorkshopHeader))
                         ELSE engine_ini
        /\ UNCHANGED before_set
        /\ UNCHANGED nonSubVars

ItemLists == SeqsUpTo(Ids, MaxItems)

SetCall == \E items \in ItemLists, append \in BOOLEAN : SetWorkshopItems(items, append)

RemoveCall == \E items \in ItemLists : RemoveWorkshopItems(items)

\* history only: the record of the last call is dropped before the next
\* call is made; what is kept is whether the file is the one that a call
\* set_workshop_items(A), append left False, wrote
ForgetCall ==
    /\ last_call # NoCall
    /\ last_call' = NoCall
    /\ engine_before' = engine_ini
    /\ before_set' =
          IF last_call.raised # "" THEN before_set
          ELSE IF last_call.op = "set_workshop_items" /\ ~last_call.append
               THEN <<Range(last_call.items)>>
               ELSE << >>
    /\ UNCHANGED engine_ini
    /\ UNCHANGED nonSubVars

SubNext ==
    \/ SetCall
    \/ RemoveCall
    \/ RemoveAllWorkshopItems
    \/ ForgetCall

SubSpecInit == SupIdle /\ IniIdle /\ SubInit /\ CacheIdle /\ GameIdle /\ SyncIdle

SubSpec == SubSpecInit /\ [][SubNext]_vars

(***************************************************************************)
(* CacheSpec: clear_unregistered_workshop_maps on a file and a cache       *)
(* directory.  os.listdir gives the entries in no particular order, so     *)
(* the loop visits them in any order; shutil.rmtree raises on an entry     *)
(* that is no directory or cannot be removed.                              *)
(***************************************************************************)
\* the names an entry of the cache directory may have
CacheNames == { DecStr(1), DecStr(16), DecStr(6), <<"x">> }

CacheInit ==
    /\ engine_ini \in EngineFiles
    /\ engine_before = engine_ini
    /\ last_call = NoCall
    /\ before_set = << >>
    /\ cache_pc = "call"
    /\ cache_exists \in BOOLEAN
    /\ cache \in SUBSET CacheNames
    /\ ~cache_exists => cache = {}
    /\ stuck \in SUBSET cache
    /\ map_ids = {}
    /\ todo = {}
    /\ removed = {}
    /\ cache_start = cache

\* the index of the first digit of a line at or after i (Len + 1 if none)
RECURSIVE FirstDigitFrom(_, _)
FirstDigitFrom(l, i) ==
    IF i > Len(l) \/ IsDigit(l[i]) THEN i ELSE FirstDigitFrom(l, i + 1)

\* the index after the run of digits that starts at i
RECURSIVE DigitsEnd(_, _)
DigitsEnd(l, i) ==
    IF i > Len(l) \/ ~IsDigit(l[i]) THEN i ELSE DigitsEnd(l, i + 1)

\* re_number.search(line) finds something
HasDigits(l) == FirstDigitFrom(l, 1) <= Len(l)

\* variant: the pattern \d, one digit, for \d+
MatchGroupOneDigit(l) ==
    SubSeq(l, FirstDigitFrom(l, 1), FirstDigitFrom(l, 1))

\* match.group(0) of re.compile(r"\d+").search(line): the first run of digits
MatchGroup(l) ==
    SubSeq(l, FirstDigitFrom(l, 1), DigitsEnd(l, FirstDigitFrom(l, 1)) - 1)

\* map_ids, lines 348-357
MapIds(lines) ==
    { MatchGroup(lines[i]) : i \in { k \in 1..Len(lines) : HasDigits(lines[k]) } }

\* lines 345-361, up to the call of os.listdir: KeyError when the file has
\* no subscription section, FileNotFoundError when there is no cache
\* directory
ClearCall ==
    /\ cache_pc = "call"
    /\ LET t == ReadTable(engine_ini)
       IN  IF ~HasKey(t, WorkshopHeader)
           THEN /\ cache_pc' = "KeyError"
                /\ UNCHANGED <<map_ids, todo>>
           ELSE /\ map_ids' = MapIds(TableGet(t, WorkshopHeader))
                /\ IF cache_exists
                   THEN cache_pc' = "loop" /\ todo' = cache
                   ELSE cache_pc' = "FileNotFoundError" /\ UNCHANGED todo
    /\ UNCHANGED <<cache_exists, cache, stuck, removed, cache_start>>
    /\ UNCHANGED nonCacheVars

\* lines 362-363: an entry whose name is in map_ids is passed over
ClearKeep ==
    /\ cache_pc = "loop"
    /\ \E d \in todo :
          /\ d \in map_ids
          /\ todo' = todo \ {d}
    /\ UNCHANGED <<cache_pc, cache_exists, cache, stuck, map_ids, removed,
                   cache_start>>
    /\ UNCHANGED nonCacheVars

\* line 364: shutil.rmtree removes the entry
ClearRemove ==
    /\ cache_pc = "loop"
    /\ \E d \in todo :
          /\ d \notin map_ids
          /\ d \notin stuck
          /\ todo' = todo \ {d}
          /\ cache' = cache \ {d}
          /\ removed' = removed \cup {d}
    /\ UNCHANGED <<cache_pc, cache_exists, stuck, map_ids, cache_start>>
    /\ UNCHANGED nonCacheVars

\* line 364: shutil.rmtree raises, and the exception leaves the method
ClearFails ==
    /\ cache_pc = "loop"
    /\ \E d \in todo :
          /\ d \notin map_ids
          /\ d \in stuck
    /\ cache_pc' = "OSError"
    /\ UNCHANGED <<cache_exists, cache, stuck, map_ids, todo, removed,
                   cache_start>>
    /\ UNCHANGED nonCacheVars

\* the loop of line 361 ends, and the method returns
ClearReturn ==
    /\ cache_pc = "loop"
    /\ todo = {}
    /\ cache_pc' = "done"
    /\ UNCHANGED <<cache_exists, cache, stuck, map_ids, todo, removed,
                   cache_start>>
    /\ UNCHANGED nonCacheVars

CacheNext ==
    \/ ClearCall
    \/ ClearKeep
    \/ ClearRemove
    \/ ClearFails
    \/ ClearReturn

CacheSpecInit == SupIdle /\ IniIdle /\ CacheInit /\ GameIdle /\ SyncIdle

CacheSpec == CacheSpecInit /\ [][CacheNext]_vars

(***************************************************************************)
(* SummarySpec and CycleSpec: rebuild_map_summaries, and                   *)
(* rebuild_custom_mapcycle, called a bounded number of times in a row on   *)
(* PCServer-KFGame.ini.  get_custom_map_names walks the cache and the      *)
(* custom directories: it gives the names in no particular order, and a    *)
(* name once for every file of that name it finds.                         *)
(***************************************************************************)
\* the length of the body of a vanilla map summary (comment of line 108)
VanillaLines == 8

\* bound: the number of body lines of the game-info section at the start
MaxGameLines == 2

\* bound: the length of the list get_custom_map_names returns
MaxNames == 2

\* bound: the largest index given to rebuild_custom_mapcycle, either sign
MaxIndex == 2

\* bound: the number of calls of rebuild_map_summaries made in a row
MaxRuns == 2

\* bound: the number of calls of rebuild_custom_mapcycle made in a row
MaxCycleRuns == 1

\* KF2._gameinfo_section_key, as one piece of text and as a header line
GameInfoKey == "[KFGame.KFGameInfo]"

GameInfoHeader == <<GameInfoKey>>

\* the text every map cycle line starts with
CyclePrefix == "GameMapCycles"

\* the map names, in the order of Python's string comparison
NameOrder == <<"KF-A", "KF-B">>

MapNames == Range(NameOrder)

NameRank(x) == CHOOSE i \in 1..Len(NameOrder) : NameOrder[i] = x

\* what get_custom_map_names may return, lines 219-236
Catalogs == SeqsUpTo(MapNames, MaxNames)

Indices == (0 - MaxIndex)..MaxIndex

\* '[%s KFMapSummary]' % name, line 124
SummaryHeader(name) == <<"[", name, " KFMapSummary]">>

\* 'MapName=%s' % name, line 124
MapLine(name) == <<"MapName=", name>>

\* re.compile(r'\[.+ KFMapSummary]').match(header_line), line 113
IsSummaryHeader(h) ==
    /\ Len(h) >= 3
    /\ h[1] = "["
    /\ \E i \in 3..Len(h) : h[i] = " KFMapSummary]"

\* a map cycle line of the file at the start
OldCycle == <<CyclePrefix, "=(Maps=(", "\"", "KF-Old", "\"", "))">>

\* another line of the game-info section
OtherLine == <<"GameLength=1">>

GameInfoBlock(body) ==
    IF Len(body) = 0 THEN <<GameInfoKey>>
    ELSE <<GameInfoKey, NL>> \o Join(body, NL)

\* a derived summary, as line 124 writes it
DerivedBlock(name) == SummaryHeader(name) \o <<NL>> \o MapLine(name)

\* a vanilla summary: a body of VanillaLines lines
VanillaBody(name) ==
    <<MapLine(name)>> \o [i \in 1..(VanillaLines - 1) |-> <<"ScreenshotPathName=x">>]

VanillaBlock(name) == SummaryHeader(name) \o <<NL>> \o Join(VanillaBody(name), NL)

\* the blocks of a file, one empty line between two of them
RECURSIVE JoinBlocks(_)
JoinBlocks(blocks) ==
    IF Len(blocks) = 0 THEN << >>
    ELSE IF Len(blocks) = 1 THEN blocks[1]
    ELSE blocks[1] \o <<NL, NL>> \o JoinBlocks(Tail(blocks))

\* the summaries of the files at the start: a derived summary of KF-A, a
\* vanilla summary of KF-A, a derived summary of KF-B, no name twice
SummaryLayouts ==
    { << >>,
      <<DerivedBlock("KF-A")>>, <<VanillaBlock("KF-A")>>, <<DerivedBlock("KF-B")>>,
      <<DerivedBlock("KF-A"), DerivedBlock("KF-B")>>,
      <<DerivedBlock("KF-B"), DerivedBlock("KF-A")>>,
      <<VanillaBlock("KF-A"), DerivedBlock("KF-B")>>,
      <<DerivedBlock("KF-B"), VanillaBlock("KF-A")>> }

\* the files rebuild_map_summaries starts from: the summaries alone, after
\* or before the game-info section, ending with or without a newline
SummaryFiles ==
    { JoinBlocks(layout) \o ending :
        ending \in { << >>, <<NL>> },
        layout \in
            (SummaryLayouts \ { << >> })
            \cup UNION { { <<GameInfoBlock(<<OtherLine>>)>> \o sums,
                           sums \o <<GameInfoBlock(<<OtherLine>>)>> } :
                         sums \in SummaryLayouts } }

\* the files rebuild_custom_mapcycle starts from: the game-info section
\* missing, alone, first or last, ending with or without a newline
CycleFiles ==
    { JoinBlocks(layout) \o ending :
        ending \in { << >>, <<NL>> },
        layout \in
            { <<DerivedBlock("KF-A")>> }
            \cup UNION { { <<GameInfoBlock(b)>>,
                           <<GameInfoBlock(b), DerivedBlock("KF-A")>>,
                           <<DerivedBlock("KF-A"), GameInfoBlock(b)>> } :
                         b \in SeqsUpTo({OldCycle, OtherLine}, MaxGameLines) } }

\* no call was made yet on the file
GameStart ==
    /\ game_before = game_ini
    /\ game_call = NoGameCall
    /\ game_repeat = FALSE
    /\ game_written = FALSE
    /\ game_runs = 0

\* lines 111-118: the entries whose header has the shape of a map summary
\* and whose body is one line are deleted
RECURSIVE DeleteDerived(_)
DeleteDerived(t) ==
    IF Len(t) = 0 THEN << >>
    ELSE IF IsSummaryHeader(t[1].h) /\ Len(t[1].body) = 1
         THEN DeleteDerived(Tail(t))
         ELSE <<t[1]>> \o DeleteDerived(Tail(t))

\* lines 122-124: one entry per name the catalog gives, in its order
RECURSIVE AddSummaries(_, _)
AddSummaries(t, names) ==
    IF Len(names) = 0 THEN t
    ELSE AddSummaries(TableSet(t, SummaryHeader(names[1]), <<MapLine(names[1])>>),
                      Tail(names))

\* the table rebuild_map_summaries writes, lines 104-127
SummariesTable(content, names) ==
    AddSummaries(DeleteDerived(ReadTable(content)), names)

\* the history of a call on PCServer-KFGame.ini
GameHistory(op, names, index, raised) ==
    /\ game_before' = game_ini
    /\ game_call' = [op |-> op, names |-> names, index |-> index, raised |-> raised]
    /\ game_repeat' = /\ game_call.op = op
                      /\ game_call.names = names
                      /\ game_call.index = index
                      /\ game_call.raised = ""
    /\ game_written' = \/ game_written
                       \/ (game_call.op # "none" /\ game_call.raised = "")
    /\ game_runs' = game_runs + 1

\* KF2.rebuild_map_summaries() when get_custom_map_names gives names
RebuildMapSummaries(names) ==
    /\ game_runs < MaxRuns
    /\ game_ini' = WriteTable(SummariesTable(game_ini, names))
    /\ GameHistory("rebuild_map_summaries", names, 0, "")
    /\ UNCHANGED nonGameVars

\* lines 311-314: the positions of the lines that start with the prefix
RECURSIVE CycleIndicesFrom(_, _)
CycleIndicesFrom(body, i) ==
    IF i > Len(body) THEN << >>
    ELSE IF Len(body[i]) > 0 /\ body[i][1] = CyclePrefix
         THEN <<i>> \o CycleIndicesFrom(body, i + 1)
         ELSE CycleIndicesFrom(body, i + 1)

CycleIndices(body) == CycleIndicesFrom(body, 1)

\* sorted(names): ascending, a name as often as the list holds it
RECURSIVE InsertSorted(_, _)
InsertSorted(x, q) ==
    IF Len(q) = 0 THEN <<x>>
    ELSE IF NameRank(x) < NameRank(q[1]) THEN <<x>> \o q
    ELSE <<q[1]>> \o InsertSorted(x, Tail(q))

RECURSIVE Sorted(_)
Sorted(names) ==
    IF Len(names) = 0 THEN << >>
    ELSE InsertSorted(names[1], Sorted(Tail(names)))

\* lines 318-322
NewMapcycle(names) ==
    <<CyclePrefix, "=(Maps=(">>
        \o Join([i \in 1..Len(names) |-> <<"\"", Sorted(names)[i], "\"">>], ",")
        \o <<"))">>

\* the exception of rebuild_custom_mapcycle ("" when none): KeyError at line
\* 307 without the game-info section; IndexError at line 329 without a map
\* cycle line, and at line 331 for an index below -len(map_cycle_indices)
MapcycleError(t, index) ==
    IF ~HasKey(t, GameInfoHeader) THEN "KeyError"
    ELSE LET n == Len(CycleIndices(TableGet(t, GameInfoHeader)))
         IN  IF index > n - 1
             THEN (IF n = 0 THEN "IndexError" ELSE "")
             ELSE (IF index < 0 - n THEN "IndexError" ELSE "")

\* variant: list.append for list.insert, the new line goes last in the body
MapcycleBodyAppends(body, index, new) ==
    LET idx == CycleIndices(body)
        n   == Len(idx)
    IN  IF index > n - 1
        THEN Append(body, new)
        ELSE [body EXCEPT ![idx[IF index >= 0 THEN index + 1 ELSE n + index + 1]] = new]

\* lines 328-331: the body of the game-info section after the call; a
\* negative index counts from the last map cycle line, as Python lists do
MapcycleBody(body, index, new) ==
    LET idx == CycleIndices(body)
        n   == Len(idx)
    IN  IF index > n - 1
        THEN SubSeq(body, 1, idx[n]) \o <<new>> \o SubSeq(body, idx[n] + 1, Len(body))
        ELSE [body EXCEPT ![idx[IF index >= 0 THEN index + 1 ELSE n + index + 1]] = new]

\* variant: setdefault for the subscript of line 307, the file is written
\* back with an empty game-info section before line 329 raises
RebuildCustomMapcycleSetDefault(names, index) ==
    LET t == ReadTable(game_ini)
        e == MapcycleError(t, index)
    IN  /\ game_runs < MaxCycleRuns
        /\ game_ini' =
              IF e = ""
              THEN WriteTable(TableSet(t, GameInfoHeader,
                       MapcycleBody(TableGet(t, GameInfoHeader), index,
                                    NewMapcycle(names))))
              ELSE IF e = "KeyError"
              THEN WriteTable(TableSet(t, GameInfoHeader, << >>))
              ELSE game_ini
        /\ GameHistory("rebuild_custom_mapcycle", names, index,
                       IF e = "KeyError" THEN "IndexError" ELSE e)
        /\ UNCHANGED nonGameVars

\* KF2.rebuild_custom_mapcycle(index) when get_custom_map_names gives names
RebuildCustomMapcycle(names, index) ==
    LET t == ReadTable(game_ini)
        e == MapcycleError(t, index)
    IN  /\ game_runs < MaxCycleRuns
        /\ game_ini' =
              IF e = ""
              THEN WriteTable(TableSet(t, GameInfoHeader,
                       MapcycleBody(TableGet(t, GameInfoHeader), index,
                                    NewMapcycle(names))))
              ELSE game_ini
        /\ GameHistory("rebuild_custom_mapcycle", names, index, e)
        /\ UNCHANGED nonGameVars

SummariesCall == \E names \in Catalogs : RebuildMapSummaries(names)

\* the catalog does not change between two calls of rebuild_custom_mapcycle
MapcycleCall ==
    \E names \in Catalogs, index \in Indices :
        /\ game_call.op # "none" => names = game_call.names
        /\ RebuildCustomMapcycle(names, index)

SummaryInit ==
    /\ SupIdle /\ IniIdle /\ SubIdle /\ CacheIdle /\ SyncIdle
    /\ game_ini \in SummaryFiles
    /\ GameStart

SummaryNext == SummariesCall

SummarySpec == SummaryInit /\ [][SummaryNext]_vars

CycleInit ==
    /\ SupIdle /\ IniIdle /\ SubIdle /\ CacheIdle /\ SyncIdle
    /\ game_ini \in CycleFiles
    /\ GameStart

CycleNext == MapcycleCall

CycleSpec == CycleInit /\ [][CycleNext]_vars

(***************************************************************************)
(* Repeated cycles of start_kf2_server: the file steps of lines 84-107,    *)
(* set_workshop_items, rebuild_map_summaries and rebuild_custom_mapcycle   *)
(* with its default index, run again and again by the loop of line 132,    *)
(* with the same fetched IDs and the same catalog.  The launches and the   *)
(* cache step between them do not write the two files.                     *)
(***************************************************************************)
\* bound: the number of cycles run
MaxSyncCycles == 3

\* the default of the parameter index of rebuild_custom_mapcycle, line 291
DefaultIndex == 1

\* the lists of IDs the sheet gives
SyncIdLists == { << >>, <<1>>, <<16, 1>> }

\* what get_custom_map_names gives
SyncCatalogs == { << >>, <<"KF-A">>, <<"KF-B", "KF-A">> }

\* PCServer-KFEngine.ini at the start: the subscription section missing,
\* alone, first or last, the file ending with or without a newline
SyncEngineFiles ==
    { layout \o ending :
        ending \in { << >>, <<NL>> },
        layout \in
            {OtherBlock}
            \cup UNION { { WorkshopBlock(b),
                           WorkshopBlock(b) \o <<NL, NL>> \o OtherBlock,
                           OtherBlock \o <<NL, NL>> \o WorkshopBlock(b) } :
                         b \in { << >>, <<ItemLine(1)>> } } }

\* PCServer-KFGame.ini at the start: a game-info section with at least one
\* map cycle line, alone, first or last
SyncGameFiles ==
    { JoinBlocks(layout) \o ending :
        ending \in { << >>, <<NL>> },
        layout \in
            UNION { { <<GameInfoBlock(b)>>,
                      <<GameInfoBlock(b), DerivedBlock("KF-A")>>,
                      <<DerivedBlock("KF-A"), GameInfoBlock(b)>> } :
                    b \in { <<OldCycle>>, <<OldCycle, OtherLine>>,
                            <<OldCycle, OldCycle>> } } }

SyncInit ==
    /\ SupIdle /\ IniIdle /\ CacheIdle
    /\ engine_ini \in SyncEngineFiles
    /\ engine_before = << >>
    /\ last_call = NoCall
    /\ before_set = << >>
    /\ game_ini \in SyncGameFiles
    /\ game_before = << >>
    /\ game_call = NoGameCall
    /\ game_repeat = FALSE
    /\ game_written = FALSE
    /\ game_runs = 0
    /\ sync_pc = "set_workshop_items"
    /\ sync_ids \in SyncIdLists
    /\ sync_names \in SyncCatalogs
    /\ sync_cycles = 0
    /\ sync_first = << >>

\* lines 84-88 of the preset: KF2.set_workshop_items(ids), append left False
SyncSetWorkshopItems ==
    LET t     == SetDefaultWorkshop(ReadTable(engine_ini))
        lines == TableGet(t, WorkshopHeader)
        e     == SetParseError(lines)
        body  == ItemLines(AllItems(sync_ids, ExistingItemsFiltered(lines), FALSE))
    IN  /\ sync_pc = "set_workshop_items"
        /\ sync_cycles < MaxSyncCycles
        /\ IF e = ""
           THEN /\ engine_ini' = WriteTable(TableSet(t, WorkshopHeader, body))
                /\ sync_pc' = "rebuild_map_summaries"
           ELSE /\ sync_pc' = "crashed"
                /\ UNCHANGED engine_ini
        /\ UNCHANGED <<game_ini, sync_ids, sync_names, sync_cycles, sync_first>>
        /\ UNCHANGED nonSyncVars

\* line 106 of the preset: KF2.rebuild_map_summaries()
SyncRebuildMapSummaries ==
    /\ sync_pc = "rebuild_map_summaries"
    /\ game_ini' = WriteTable(SummariesTable(game_ini, sync_names))
    /\ sync_pc' = "rebuild_custom_mapcycle"
    /\ UNCHANGED <<engine_ini, sync_ids, sync_names, sync_cycles, sync_first>>
    /\ UNCHANGED nonSyncVars

\* line 107 of the preset: KF2.rebuild_custom_mapcycle(); the cycle is
\* complete, and line 132 starts the next one after the restart
SyncRebuildCustomMapcycle ==
    LET t == ReadTable(game_ini)
        e == MapcycleError(t, DefaultIndex)
    IN  /\ sync_pc = "rebuild_custom_mapcycle"
        /\ IF e = ""
           THEN /\ game_ini' =
                      WriteTable(TableSet(t, GameInfoHeader,
                          MapcycleBody(TableGet(t, GameInfoHeader), DefaultIndex,
                                       NewMapcycle(sync_names))))
                /\ sync_pc' = "set_workshop_items"
                /\ sync_cycles' = sync_cycles + 1
                /\ sync_first' = IF sync_cycles = 0 THEN <<engine_ini, game_ini'>>
                                 ELSE sync_first
           ELSE /\ sync_pc' = "crashed"
                /\ UNCHANGED <<game_ini, sync_cycles, sync_first>>
        /\ UNCHANGED <<engine_ini, sync_ids, sync_names>>
        /\ UNCHANGED nonSyncVars

SyncNext ==
    \/ SyncSetWorkshopItems
    \/ SyncRebuildMapSummaries
    \/ SyncRebuildCustomMapcycle

SyncSpec == SyncInit /\ [][SyncNext]_vars

(***************************************************************************)
(* Properties of the supervisor                                            *)
(***************************************************************************)
\* the positions after a poll found a process gone: lines 150-152, 154-156
ExitPcs ==
    {"exit_term_steam", "exit_wait_steam", "exit_term_kf2", "exit_wait_kf2",
     "stopped"}

NoLaunchStep ==
    /\ steam' = "alive" => steam = "alive"
    /\ kf2' = "alive" => kf2 = "alive"

\* C1: when a poll of the monitor loop finds the server or the update agent
\* gone, the supervisor asks the other one to terminate, waits until it is
\* gone, and stops; from the moment of that poll on it launches nothing and
\* never leaves the stopped position.
C1_ExitStopsForGood ==
    [][ /\ (pc = "poll_kf2" /\ PollNotNone(kf2) /\ pc' # pc)
            => pc' = "exit_term_steam"
        /\ (pc = "poll_steam" /\ PollNotNone(steam) /\ pc' # pc)
            => pc' = "exit_term_kf2"
        /\ (pc = "exit_term_steam" /\ pc' # pc)
            => (pc' = "exit_wait_steam" /\ steam' # "alive")
        /\ (pc = "exit_term_kf2" /\ pc' # pc)
            => (pc' = "exit_wait_kf2" /\ kf2' # "alive")
        /\ (pc = "exit_wait_steam" /\ pc' # pc)
            => (pc' = "stopped" /\ steam' = "reaped")
        /\ (pc = "exit_wait_kf2" /\ pc' # pc)
            => (pc' = "stopped" /\ kf2' = "reaped")
        /\ pc \in ExitPcs => (pc' \in ExitPcs /\ NoLaunchStep)
        /\ pc = "stopped" => pc' = "stopped"
      ]_vars

\* C1 witness: the supervisor has stopped after the server went away, and
\* the update agent was waited for.
C1_Witness ==
    /\ pc = "stopped"
    /\ steam = "reaped"
    /\ kf2 = "reaped"
    /\ steps = CycleSteps

\* C2: the monitor loop leaves for the restart only from the clock check, at
\* a check that reads the restart hour, and only when an earlier check of the
\* same RUNNING period read another hour.
C2_RestartEdgeTriggered ==
    [][ (pc' = "restart_term_steam" /\ pc # pc')
            => /\ pc = "check_hour"
               /\ hour = restart_hour
               /\ sawOtherHour
      ]_vars

\* C2 witness: a restart fires, in the restart hour, after another hour was
\* seen.
C2_Witness ==
    /\ pc = "restart_term_steam"
    /\ hour = restart_hour
    /\ sawOtherHour

\* C3: with live processes, successful steps, an advancing clock and a poll
\* in every hour, every RUNNING period ends in a restart, every restart
\* terminates and waits for both processes and begins a new cycle, and every
\* cycle reaches RUNNING again; so the restart happens again and again.
C3_DailyRestart ==
    /\ (pc \in MonitorPcs) ~> (pc = "restart_term_steam")
    /\ (pc = "restart_term_steam")
          ~> (pc = "set_items" /\ steam = "reaped" /\ kf2 = "reaped")
    /\ (pc = "set_items")
          ~> (pc \in MonitorPcs /\ steam = "alive" /\ kf2 = "alive")
    /\ []<>(pc = "restart_term_steam")

\* C3 witness: a second cycle begins after both processes of the first were
\* terminated and waited for.
C3_Witness ==
    /\ pc = "set_items"
    /\ steam = "reaped"
    /\ kf2 = "reaped"

IsPrefix(s, t) == Len(s) <= Len(t) /\ s = SubSeq(t, 1, Len(s))

\* C4: the calls of a cycle are made in the fixed order of CycleSteps, none
\* skipped or reordered: the calls made so far are always a prefix of that
\* list, and the cycle enters RUNNING only with the whole list made.
C4_CycleOrder ==
    /\ IsPrefix(steps, CycleSteps)
    /\ pc \in (MonitorPcs \cup {"init_flag"}) => steps = CycleSteps
    /\ pc = "launch_steam_2" => Len(steps) = Len(CycleSteps) - 2

\* C4 witness: a second cycle has made all its calls and watches the
\* processes it relaunched.
C4_Witness ==
    /\ pc = "poll_kf2"
    /\ steps = CycleSteps
    /\ sawOtherHour
    /\ steam = "alive"
    /\ kf2 = "alive"

(***************************************************************************)
(* Properties of the round trips (IniSpec)                                 *)
(***************************************************************************)
\* content.rstrip('\n')
RECURSIVE RStripNL(_)
RStripNL(c) ==
    IF Len(c) > 0 /\ c[Len(c)] = NL THEN RStripNL(SubSeq(c, 1, Len(c) - 1))
    ELSE c

\* c with every run of two or more newlines written as exactly two
RECURSIVE CollapseFrom(_, _, _)
CollapseFrom(c, i, out) ==
    IF i > Len(c) THEN out
    ELSE IF c[i] = NL /\ i < Len(c) /\ c[i + 1] = NL
         THEN CollapseFrom(c, RunEnd(c, i), out \o <<NL, NL>>)
         ELSE CollapseFrom(c, i + 1, Append(out, c[i]))

CollapseBlank(c) == CollapseFrom(c, 1, << >>)

\* the header lines of a file: the first line of each block of lines
BlockHeaders(f) ==
    LET blocks == SplitBlank(RStripNL(f))
    IN  [i \in 1..Len(blocks) |-> SplitOn(blocks[i], NL)[1]]

\* a file in the format: it starts with a header line, and no header
\* appears twice
WellFormedFile(f) ==
    /\ Len(f) > 0
    /\ f[1] # NL
    /\ \A i, j \in 1..Len(BlockHeaders(f)) :
          BlockHeaders(f)[i] = BlockHeaders(f)[j] => i = j

\* C9: a well-formed table that is written and read back is the same table:
\* the same headers in the same order, each with the same body lines.
C9_TableRoundTrip ==
    (ini_pc = "table_written_read" /\ Len(ini_input) > 0)
        => section_table = ini_input

\* C10 as stated: a file of the format that is read and written back has the
\* same content, up to the newlines at its end.
C10_FileRoundTrip ==
    (ini_pc = "file_read_written" /\ WellFormedFile(ini_input))
        => RStripNL(ini_file) = RStripNL(ini_input)

\* C10 as amended: a file of the format that is read and written back has
\* the same content except that every run of blank lines between two
\* sections is one blank line, and that it ends in one to three newlines.
C10_FileRoundTripCollapsed ==
    (ini_pc = "file_read_written" /\ WellFormedFile(ini_input))
        => /\ RStripNL(ini_file) = CollapseBlank(RStripNL(ini_input))
           /\ Len(ini_file) - Len(RStripNL(ini_file)) \in 1..3

\* C10 witness: a file of two sections, two blank lines apart, was read and
\* written back.
C10_Witness ==
    /\ ini_pc = "file_read_written"
    /\ WellFormedFile(ini_input)
    /\ Len(section_table) = 2
    /\ RStripNL(ini_file) # RStripNL(ini_input)

(***************************************************************************)
(* Properties of the subscription list (SubSpec)                           *)
(***************************************************************************)
\* the body lines of the subscription section of a file (none if missing)
SectionLines(f) ==
    LET t == ReadTable(f)
    IN  IF HasKey(t, WorkshopHeader) THEN TableGet(t, WorkshopHeader) ELSE << >>

\* a line ServerSubscribedWorkshopItems=<digits>
IsItemLine(l) ==
    /\ Len(l) >= 3
    /\ l[1] = ItemKey
    /\ l[2] = "="
    /\ IsIntText(SubSeq(l, 3, Len(l)))

RECURSIVE IdsOfLines(_)
IdsOfLines(lines) ==
    IF Len(lines) = 0 THEN << >>
    ELSE IF IsItemLine(lines[1])
         THEN <<IntOf(SubSeq(lines[1], 3, Len(lines[1])))>> \o IdsOfLines(Tail(lines))
         ELSE IdsOfLines(Tail(lines))

\* the IDs a file subscribes to, line by line
StoredIdList(f) == IdsOfLines(SectionLines(f))

StoredIds(f) == Range(StoredIdList(f))

\* every line of the subscription section is a subscription; the file's
\* last newline, if the section ends the file, is read as one empty line
WellFormedSubs(f) ==
    \A i \in 1..Len(SectionLines(f)) :
        IsItemLine(SectionLines(f)[i]) \/ SectionLines(f)[i] = << >>

OneLinePerId(f) == Len(StoredIdList(f)) = Cardinality(StoredIds(f))

\* C6: on a file whose subscription lines are all subscriptions,
\* set_workshop_items completes and leaves exactly the given IDs
\* (append=False) or exactly the given and the stored IDs (append=True),
\* one line per ID and no other line.
C6_SetStoresExactly ==
    (last_call.op = "set_workshop_items" /\ WellFormedSubs(engine_before))
        => /\ last_call.raised = ""
           /\ StoredIds(engine_ini) =
                 IF last_call.append
                 THEN Range(last_call.items) \cup StoredIds(engine_before)
                 ELSE Range(last_call.items)
           /\ WellFormedSubs(engine_ini)
           /\ OneLinePerId(engine_ini)

\* C6 witness: a file that subscribed to 1 and 9 was merged with 9 and 16
\* and subscribes to 1, 9 and 16.
C6_Witness ==
    /\ last_call.op = "set_workshop_items"
    /\ last_call.append
    /\ Range(last_call.items) = {9, 16}
    /\ StoredIds(engine_before) = {1, 9}
    /\ StoredIds(engine_ini) = {1, 9, 16}

Ascending(q) == \A i, j \in 1..Len(q) : i < j => q[i] < q[j]

\* C7: after set_workshop_items the subscription lines are in ascending
\* order of their IDs, whatever the order of the IDs given.
C7_AscendingOrder ==
    (last_call.op = "set_workshop_items" /\ last_call.raised = "")
        => Ascending(StoredIdList(engine_ini))

\* C8: after set_workshop_items, or remove_workshop_items with a list, no ID
\* is on two lines of the subscription section.
C8_NoDuplicateIds ==
    (/\ last_call.op \in {"set_workshop_items", "remove_workshop_items"}
     /\ last_call.raised = "")
        => OneLinePerId(engine_ini)

\* C19: a subscription section with malformed lines (no "=", no number after
\* "=", empty) is never fatal: set_workshop_items and remove_workshop_items
\* with a list complete without an exception, whatever lines the section
\* holds.
C19_MalformedNeverFatal ==
    last_call.op \in {"set_workshop_items", "remove_workshop_items"}
        => last_call.raised = ""

\* the ascending list of a set of numbers
RECURSIVE SortedList(_)
SortedList(S) ==
    IF S = {} THEN << >>
    ELSE LET m == CHOOSE x \in S : \A y \in S : x <= y
         IN  <<m>> \o SortedList(S \ {m})

\* C20: remove_workshop_items that completes deletes the whole subscription
\* section when its argument is None or an empty list; with a non-empty
\* list, on a section of subscriptions, it keeps the section with exactly
\* the stored IDs that are not in the list, in ascending order.
C20_RemoveItems ==
    /\ (/\ last_call.raised = ""
        /\ \/ last_call.op = "remove_workshop_items(None)"
           \/ (last_call.op = "remove_workshop_items" /\ last_call.items = << >>))
          => ~HasKey(ReadTable(engine_ini), WorkshopHeader)
    /\ (/\ last_call.raised = ""
        /\ last_call.op = "remove_workshop_items"
        /\ last_call.items # << >>
        /\ WellFormedSubs(engine_before))
          => /\ HasKey(ReadTable(engine_ini), WorkshopHeader)
             /\ StoredIdList(engine_ini) =
                   SortedList(StoredIds(engine_before) \ Range(last_call.items))

(***************************************************************************)
(* Properties of the cache (CacheSpec)                                     *)
(***************************************************************************)
\* the subscribed IDs of a file, as the names their cache entries have
SubscribedNames(f) == { DecStr(id) : id \in StoredIds(f) }

HasWorkshopSection(f) == HasKey(ReadTable(f), WorkshopHeader)

SectionsOf(f) == IF RStripNL(f) = << >> THEN << >> ELSE ReadTable(RStripNL(f))

SectionSet(f) == Range(SectionsOf(f))

\* a section with the header of a map summary and a body of one line
IsOneLineSummary(e) == IsSummaryHeader(e.h) /\ Len(e.body) = 1

\* the sections of a list whose header is in a set, in their order
RECURSIVE SectionsWith(_, _)
SectionsWith(t, headers) ==
    IF Len(t) = 0 THEN << >>
    ELSE IF t[1].h \in headers THEN <<t[1]>> \o SectionsWith(Tail(t), headers)
    ELSE SectionsWith(Tail(t), headers)

\* the headers of the sections of a file that are no one-line map summary
AuthoredHeaders(f) == { e.h : e \in { x \in SectionSet(f) : ~IsOneLineSummary(x) } }

\* the derived summary of a name
DerivedSection(name) == [h |-> SummaryHeader(name), body |-> <<MapLine(name)>>]

\* C11: rebuild_map_summaries run a second time with the same catalog leaves
\* the file with the same set of sections, each with the same body, as the
\* first run left it.
C11_SummaryIdempotent ==
    (game_call.op = "rebuild_map_summaries" /\ game_repeat)
        => SectionSet(game_ini) = SectionSet(game_before)

\* C12: rebuild_map_summaries keeps every section that has the header of a
\* map summary and a body of VanillaLines lines, and removes every section
\* that has such a header and a body of one line (it is in the file
\* afterwards only if the catalog holds its name).
C12_SummaryClassification ==
    game_call.op = "rebuild_map_summaries"
        => \A e \in SectionSet(game_before) :
              /\ (IsSummaryHeader(e.h) /\ Len(e.body) = VanillaLines)
                    => HasKey(SectionsOf(game_ini), e.h)
              /\ (/\ IsOneLineSummary(e)
                  /\ \A x \in Range(game_call.names) : e.h # SummaryHeader(x))
                    => ~HasKey(SectionsOf(game_ini), e.h)

\* C13: rebuild_map_summaries leaves every section that is not a one-line
\* map summary as it was: same header, same body, same order among these
\* sections, whatever names the catalog holds.
C13_SummaryFrame ==
    game_call.op = "rebuild_map_summaries"
        => SectionsWith(SectionsOf(game_ini), AuthoredHeaders(game_before))
              = SectionsWith(SectionsOf(game_before), AuthoredHeaders(game_before))

\* C14: after rebuild_map_summaries on a file that an earlier call of this
\* program wrote, the one-line map summaries of the file are exactly the
\* derived summaries of the names of the catalog.
C14_ExactlyCatalog ==
    (game_call.op = "rebuild_map_summaries" /\ game_written)
        => { e \in SectionSet(game_ini) : IsOneLineSummary(e) }
              = { DerivedSection(x) : x \in Range(game_call.names) }

(***************************************************************************)
(* Properties of the map cycle (CycleSpec)                                 *)
(***************************************************************************)
HasGameInfo(f) == HasKey(SectionsOf(f), GameInfoHeader)

\* the body of the game-info section of a file (none if missing)
GameInfoBody(f) ==
    IF HasGameInfo(f) THEN TableGet(SectionsOf(f), GameInfoHeader) ELSE << >>

IsCycleLine(l) == Len(l) > 0 /\ l[1] = CyclePrefix

\* the number of map cycle lines of a body
CycleCount(body) == Cardinality({ i \in 1..Len(body) : IsCycleLine(body[i]) })

\* the position in the body of its k-th map cycle line
CyclePosition(body, k) ==
    CHOOSE i \in 1..Len(body) :
        /\ IsCycleLine(body[i])
        /\ CycleCount(SubSeq(body, 1, i)) = k

\* C15: on a game-info section with n >= 1 map cycle lines and an index
\* >= 0, rebuild_custom_mapcycle completes; with index < n the body keeps
\* its length and every line but the map cycle line number index, which is
\* a map cycle line again; with index >= n the body is the old body with
\* one map cycle line inserted right after the last map cycle line.
C15_CycleOverwriteOrInsert ==
    LET old == GameInfoBody(game_before)
        new == GameInfoBody(game_ini)
        n   == CycleCount(old)
    IN  (/\ game_call.op = "rebuild_custom_mapcycle"
         /\ game_call.index >= 0
         /\ HasGameInfo(game_before)
         /\ n >= 1)
            => /\ game_call.raised = ""
               /\ game_call.index < n
                     => LET k == CyclePosition(old, game_call.index + 1)
                        IN  /\ Len(new) = Len(old)
                            /\ IsCycleLine(new[k])
                            /\ \A i \in 1..Len(old) : i # k => new[i] = old[i]
               /\ game_call.index >= n
                     => LET k == CyclePosition(old, n)
                        IN  /\ Len(new) = Len(old) + 1
                            /\ IsCycleLine(new[k + 1])
                            /\ SubSeq(new, 1, k) = SubSeq(old, 1, k)
                            /\ SubSeq(new, k + 2, Len(new)) = SubSeq(old, k + 1, Len(old))

\* C15 witness: index 1 on the body (map cycle, other line): the new map
\* cycle line was inserted between the two.
C15_Witness ==
    /\ game_call.op = "rebuild_custom_mapcycle"
    /\ game_call.index = 1
    /\ game_call.raised = ""
    /\ GameInfoBody(game_before) = <<OldCycle, OtherLine>>
    /\ Len(GameInfoBody(game_ini)) = 3
    /\ GameInfoBody(game_ini)[1] = OldCycle
    /\ IsCycleLine(GameInfoBody(game_ini)[2])
    /\ GameInfoBody(game_ini)[3] = OtherLine

\* C16: on a game-info section without a map cycle line,
\* rebuild_custom_mapcycle with any index completes and inserts exactly one
\* map cycle line, as the first line of the body.
C16_ClampAppend ==
    (/\ game_call.op = "rebuild_custom_mapcycle"
     /\ HasGameInfo(game_before)
     /\ CycleCount(GameInfoBody(game_before)) = 0)
        => /\ game_call.raised = ""
           /\ Len(GameInfoBody(game_ini)) = Len(GameInfoBody(game_before)) + 1
           /\ IsCycleLine(GameInfoBody(game_ini)[1])
           /\ Tail(GameInfoBody(game_ini)) = GameInfoBody(game_before)

\* the distinct names of a list, ascending
RECURSIVE AscendingNames(_)
AscendingNames(S) ==
    IF S = {} THEN << >>
    ELSE LET m == CHOOSE x \in S : \A y \in S : NameRank(x) <= NameRank(y)
         IN  <<m>> \o AscendingNames(S \ {m})

\* GameMapCycles=(Maps=("a","b",...)) of the distinct names of a list
ExpectedCycleLine(names) ==
    LET q == AscendingNames(Range(names))
    IN  <<CyclePrefix, "=(Maps=(">>
            \o Join([i \in 1..Len(q) |-> <<"\"", q[i], "\"">>], ",")
            \o <<"))">>

\* C17: the map cycle line that rebuild_custom_mapcycle writes lists every
\* distinct name of the catalog once, ascending, quoted and comma-joined,
\* also when the catalog holds a name more than once.
C17_CycleLineContent ==
    (game_call.op = "rebuild_custom_mapcycle" /\ game_call.raised = "")
        => \E i \in 1..Len(GameInfoBody(game_ini)) :
              GameInfoBody(game_ini)[i] = ExpectedCycleLine(game_call.names)

\* C18: on a file without the section [KFGame.KFGameInfo],
\* rebuild_custom_mapcycle ends in an error and the file is as it was.
C18_MissingGameInfo ==
    (game_call.op = "rebuild_custom_mapcycle" /\ ~HasGameInfo(game_before))
        => /\ game_call.raised # ""
           /\ game_ini = game_before

\* C18 witness: the call on a file that holds one map summary and no
\* game-info section raised KeyError.
C18_Witness ==
    /\ game_call.op = "rebuild_custom_mapcycle"
    /\ game_call.raised = "KeyError"
    /\ game_before = DerivedBlock("KF-A")
    /\ game_ini = game_before

(***************************************************************************)
(* Missing section, missing cache directory, entries that cannot be removed *)
(***************************************************************************)
\* C21: a config file without the subscription section is never an error:
\* clear_unregistered_workshop_maps on such a file completes without
\* raising (it does not end in KeyError) and takes the subscribed set as
\* empty, so that when it has returned it has removed every cache entry.
C21_MissingSectionNoError ==
    ~HasWorkshopSection(engine_ini)
        => /\ cache_pc # "KeyError"
           /\ cache_pc = "done" => removed = cache_start

\* C22: a cache entry whose removal fails does not end the call: the
\* failure is caught (the call never ends in OSError), and when the call is
\* over every stale entry that can be removed has been removed.
C22_FailureIsolation ==
    /\ cache_pc # "OSError"
    /\ cache_pc = "done"
          => (cache_start \ (map_ids \cup stuck)) \subseteq removed

\* C28: when the cache directory does not exist and the file holds the
\* subscription section (set_workshop_items has written it), the call
\* completes as if the cache were empty: it does not end in
\* FileNotFoundError.
C28_MissingCacheDir ==
    (~cache_exists /\ HasWorkshopSection(engine_ini))
        => cache_pc # "FileNotFoundError"

\* C29: on a game-info section with n >= 1 map cycle lines and an index
\* < 0, rebuild_custom_mapcycle completes, and the body is the old body
\* with one map cycle line inserted right after the last map cycle line:
\* no line of the old body is overwritten.
C29_NegativeIndexAppends ==
    LET old == GameInfoBody(game_before)
        new == GameInfoBody(game_ini)
        n   == CycleCount(old)
    IN  (/\ game_call.op = "rebuild_custom_mapcycle"
         /\ game_call.index < 0
         /\ HasGameInfo(game_before)
         /\ n >= 1)
            => /\ game_call.raised = ""
               /\ LET k == CyclePosition(old, n)
                  IN  /\ Len(new) = Len(old) + 1
                      /\ IsCycleLine(new[k + 1])
                      /\ SubSeq(new, 1, k) = SubSeq(old, 1, k)
                      /\ SubSeq(new, k + 2, Len(new)) = SubSeq(old, k + 1, Len(old))

\* C26: remove_workshop_items(B) on the file that set_workshop_items(A)
\* wrote completes without error and leaves exactly the IDs of A that are
\* not in B in the subscription section, wherever the section stands in the
\* file.
C26_SetThenRemove ==
    (last_call.op = "remove_workshop_items" /\ before_set # << >>)
        => /\ last_call.raised = ""
           /\ StoredIds(engine_ini) = before_set[1] \ Range(last_call.items)

(***************************************************************************)
(* The processes of the supervisor                                         *)
(***************************************************************************)
\* a handle whose process is gone and was waited for, or no handle yet
Waited(p) == p \in {"none", "reaped"}

\* the step appends this call to the calls of the cycle
Calls(name) ==
    /\ Len(steps') = Len(steps) + 1
    /\ steps'[Len(steps')] = name

\* C23: at most one process of each kind is alive and not yet waited for:
\* every step that launches the update agent is taken while the handle
\* steam holds no process or one that was waited for, and likewise for the
\* server and the handle kf2.
C23_OneProcessPerKind ==
    [][ /\ Calls("Steam.launch") => Waited(steam)
        /\ Calls("KF2.launch") => Waited(kf2) ]_vars

\* C23 witness: in the cycle after a restart the update agent runs again,
\* and the server of the cycle before was waited for and is not launched
\* yet.
C23_Witness ==
    /\ pc = "launch_kf2_1"
    /\ sawOtherHour
    /\ steam = "alive"
    /\ kf2 = "reaped"

\* C24: the config files are rewritten and the cache entries deleted only
\* while no process of the supervisor is alive: at each of the four steps
\* both handles hold no process or one that was waited for.
C24_RewritesWhileStopped ==
    pc \in {"set_items", "clear_cache", "summaries", "mapcycle"}
        => Waited(steam) /\ Waited(kf2)

\* C24 witness: the two processes of the warm-up were waited for, and
\* rebuild_map_summaries is the next step.
C24_Witness ==
    /\ pc = "summaries"
    /\ steam = "reaped"
    /\ kf2 = "reaped"
    /\ steps[Len(steps)] = "kf2.wait"

\* a process that was launched and has not ended
Running(p) == p \in {"alive", "terminating"}

\* C25: whenever start_kf2_server_loop has stopped, by returning or by an
\* exception, no process that it launched is still running.
C25_NoProcessLeftBehind ==
    pc \in {"stopped", "crashed"} => ~Running(steam) /\ ~Running(kf2)

(***************************************************************************)
(* Repeated cycles                                                         *)
(***************************************************************************)
\* the number of sections of a file
SectionCount(f) == Len(SectionsOf(f))

\* the number of lines of a file: its newlines, and the text after the last
LineCount(f) == Len(SplitOn(f, NL))

\* the number of map cycle lines of a file
CycleLineCount(f) == CycleCount(GameInfoBody(f))

FileCounts(f) == <<SectionCount(f), CycleLineCount(f), LineCount(f)>>

\* C27: with the same IDs and the same catalog, no cycle after the first
\* raises, and at the end of every cycle after the first each of the two
\* files has as many sections, as many map cycle lines and as many lines
\* as at the end of the first cycle.
C27_FilesSettle ==
    sync_cycles >= 1
        => /\ sync_pc # "crashed"
           /\ sync_pc = "set_workshop_items"
                 => /\ FileCounts(engine_ini) = FileCounts(sync_first[1])
                    /\ FileCounts(game_ini) = FileCounts(sync_first[2])

====
